---- MODULE Spec2Model ----
(***************************************************************************)
(* Model of parse_join.py: fetch_character_data (configuration, session,   *)
(* authentication, list fetch, per-character detail loop) and              *)
(* write_to_csv_with_pandas.  What pandas.json_normalize and               *)
(* DataFrame.to_csv compute is library code outside this program: only     *)
(* whether the two calls complete or raise, and whether a file is left     *)
(* behind, is modelled, as an outcome of the environment.                  *)
(*                                                                         *)
(* JSON values.  A scalar is [k, text] with k in {"int","str","null"} and  *)
(* text its lexical form.  A decoded body is [t, s, o]: for a JSON object  *)
(* t = "obj", s maps the keys holding scalars to them and o maps the keys  *)
(* holding nested objects to them; any other JSON value (array, scalar)    *)
(* is t = "arr" with s and o empty.                                        *)
(***************************************************************************)
EXTENDS Integers, Sequences, FiniteSets, TLC

\* ------------------------------------------------------------------ bounds
\* longest character list the list endpoint returns
MaxChars == 3

\* ------------------------------------------------------------- JSON values
Empty == [x \in {} |-> x]

IntScalar(text) == [k |-> "int", text |-> text]
StrScalar(text) == [k |-> "str", text |-> text]
Null == [k |-> "null", text |-> ""]

Obj(s, o) == [t |-> "obj", s |-> s, o |-> o]
NonObject == [t |-> "arr", s |-> Empty, o |-> Empty]

\* isinstance(v, dict)
IsDict(v) == v.t = "obj"

\* Python truth value of a scalar: None, 0 and "" are falsy
Truthy(v) ==
    CASE v.k = "null" -> FALSE
      [] v.k = "int" -> v.text # "0"
      [] OTHER -> v.text # ""

\* dict.get(key) for a key whose value, when present, is a scalar
Get(d, key) == IF key \in DOMAIN d.s THEN d.s[key] ELSE Null

\* ----------------------------------------------------------- configuration
RequiredKeys ==
    {"auth_url", "login_data", "characters_url", "character_details_url", "project_id"}

FullConfig == [key \in RequiredKeys |-> key]

Without(cfg, key) == [k \in (DOMAIN cfg) \ {key} |-> cfg[k]]

\* what open(config_path) + yaml.safe_load can find on disk
ConfigFiles ==
    {[exists |-> FALSE, content |-> Empty], [exists |-> TRUE, content |-> FullConfig]}
    \cup {[exists |-> TRUE, content |-> Without(FullConfig, key)] : key \in RequiredKeys}

\* the config[...] lookups of lines 27-31 raise KeyError on a missing key
HasAllKeys(cfg) == RequiredKeys \subseteq DOMAIN cfg

\* ------------------------------------------------------------------- HTTP
\* Response.raise_for_status raises HTTPError for 4xx and 5xx
RaisesForStatus(status) == status >= 400 /\ status < 600

Response(status, parses, body) == [status |-> status, parses |-> parses, body |-> body]

ErrorResponse == Response(500, FALSE, NonObject)

\* bodies of the authentication endpoint
TokenBody(tok) == Obj([key \in {"access_token"} |-> tok], Empty)
AuthBodies ==
    {Obj(Empty, Empty), NonObject}
    \cup {TokenBody(tok) : tok \in {Null, StrScalar(""), StrScalar("T1"), StrScalar("T2")}}

\* what session.post / session.get can produce: no response (the transport
\* raised ConnectionError), or a response
NoResponse == [status |-> 0, parses |-> FALSE, body |-> NonObject]

AuthOutcomes ==
    {NoResponse, ErrorResponse, Response(200, FALSE, NonObject)}
    \cup {Response(200, TRUE, b) : b \in AuthBodies}

\* mutant: the header is built without the token
BearerHeadersNoToken(token) == <<"Authorization", "Bearer ">>

\* headers = {"Authorization": f"Bearer {token}"}
BearerHeaders(token) == <<"Authorization", "Bearer " \o token.text>>

FormHeaders == <<"Content-Type", "application/x-www-form-urlencoded">>

Request(method, url, hdr, sess) ==
    [method |-> method, url |-> url, headers |-> hdr, session |-> sess]

LogEntry(level, msg) == [level |-> level, msg |-> msg]

\* ------------------------------------------------------------------- state
VARIABLES
    pc,            \* position in fetch_character_data
    config_file,   \* the file at config_path
    config,        \* the loaded mapping
    session,       \* "none", "open", "closed"
    acquired,      \* number of requests.Session() constructions
    token,         \* the access token read from the auth body
    headers,       \* the headers built at line 60
    characters,    \* the decoded list body
    idx,           \* 1-based position of the for loop
    all_character_data,
    requests,      \* HTTP requests issued, in order
    auth_response, \* the response to the authentication POST
    response,      \* the response to the list GET
    item_results,  \* per processed list element: how its iteration ended
    log,           \* logged records, in order
    exporter_calls,\* arguments write_to_csv_with_pandas was called with
    file,          \* the output file
    raised         \* exception that left fetch_character_data, or "none"

vars == <<pc, config_file, config, session, acquired, token, headers, characters, idx,
          all_character_data, requests, auth_response, response, item_results,
          log, exporter_calls, file, raised>>

\* the output file: whether it exists and whether it was written completely
NoFile == [exists |-> FALSE, complete |-> FALSE]

NoList == [t |-> "none", items |-> <<>>]

NoHeaders == <<"", "">>

NoListResponse == [status |-> 0, parses |-> FALSE, body |-> NoList]

Init ==
    /\ pc = "load_config"
    /\ config_file \in ConfigFiles
    /\ config = Empty
    /\ session = "none"
    /\ acquired = 0
    /\ token = Null
    /\ headers = NoHeaders
    /\ characters = NoList
    /\ idx = 1
    /\ all_character_data = <<>>
    /\ requests = <<>>
    /\ auth_response = NoResponse
    /\ response = NoListResponse
    /\ item_results = <<>>
    /\ log = <<>>
    /\ exporter_calls = <<>>
    /\ file = NoFile
    /\ raised = "none"

\* mutant: the session is left as it is
SessionExitLeak(s) == s

\* leaving the with block, by return or by exception, closes the session
SessionExit(s) == IF s = "open" THEN "closed" ELSE s

\* lines 20-25
LoadConfig ==
    /\ pc = "load_config"
    /\ IF config_file.exists
       THEN /\ config' = config_file.content
            /\ pc' = "read_config"
            /\ log' = log
       ELSE /\ config' = config
            /\ pc' = "return_25"
            /\ log' = Append(log, LogEntry("error", "Configuration file not found"))
    /\ UNCHANGED <<config_file, session, acquired, token, headers, characters, idx,
                   all_character_data, requests, auth_response, response, item_results,
                   exporter_calls, file, raised>>

\* lines 27-33
ReadConfig ==
    /\ pc = "read_config"
    /\ IF HasAllKeys(config)
       THEN /\ pc' = "authenticate"
            /\ session' = "open"
            /\ acquired' = acquired + 1
            /\ raised' = raised
       ELSE /\ pc' = "raised"
            /\ raised' = "KeyError"
            /\ UNCHANGED <<session, acquired>>
    /\ UNCHANGED <<config_file, config, token, headers, characters, idx,
                   all_character_data, requests, auth_response, response, item_results,
                   log, exporter_calls, file>>

\* an exception leaves fetch_character_data: the with block closes the session
Escapes(exc) ==
    /\ pc' = "raised"
    /\ raised' = exc
    /\ session' = SessionExit(session)

\* a return statement inside the with block
Returns(label) ==
    /\ pc' = label
    /\ raised' = raised
    /\ session' = SessionExit(session)

\* lines 35-60
Authenticate ==
    /\ pc = "authenticate"
    /\ \E r \in AuthOutcomes :
        LET started == Append(log, LogEntry("info", "Authenticating..."))
            tok == Get(r.body, "access_token")
        IN  /\ requests' = Append(requests,
                    Request("POST", <<config["auth_url"]>>, FormHeaders, session))
            /\ auth_response' = r
            /\ CASE r = NoResponse ->
                    \* session.post raised ConnectionError, which is no HTTPError
                    /\ Escapes("ConnectionError")
                    /\ log' = started
                    /\ UNCHANGED <<token, headers>>
                 [] r # NoResponse /\ RaisesForStatus(r.status) ->
                    /\ Returns("return_47")
                    /\ log' = started \o <<LogEntry("error", "Authentication failed"),
                                           LogEntry("error", "Status code"),
                                           LogEntry("error", "Response content")>>
                    /\ UNCHANGED <<token, headers>>
                 [] r # NoResponse /\ ~RaisesForStatus(r.status) /\ ~r.parses ->
                    /\ Returns("return_58")
                    /\ log' = started \o <<LogEntry("error", "Failed to decode JSON response"),
                                           LogEntry("error", "Response content")>>
                    /\ UNCHANGED <<token, headers>>
                 [] r # NoResponse /\ ~RaisesForStatus(r.status) /\ r.parses
                        /\ ~IsDict(r.body) ->
                    \* .get on a decoded value that is no dict
                    /\ Escapes("AttributeError")
                    /\ log' = started
                    /\ UNCHANGED <<token, headers>>
                 [] r # NoResponse /\ ~RaisesForStatus(r.status) /\ r.parses
                        /\ IsDict(r.body) /\ ~Truthy(tok) ->
                    /\ Returns("return_54")
                    /\ token' = tok
                    /\ log' = started \o <<LogEntry("error", "No access_token received"),
                                           LogEntry("error", "Response content")>>
                    /\ UNCHANGED headers
                 [] OTHER ->
                    /\ pc' = "fetch_list"
                    /\ token' = tok
                    /\ headers' = BearerHeaders(tok)
                    /\ log' = started
                    /\ UNCHANGED <<session, raised>>
    /\ UNCHANGED <<config_file, config, acquired, characters, idx, response,
                   all_character_data, item_results, exporter_calls, file>>

\* ------------------------------------------------------------- list fetch
Summary(id) == Obj([key \in {"characterId"} |-> id], Empty)

\* list elements: no identifier, a falsy identifier, two identifiers, and an
\* element that is no object (a number, a string, an array)
Summaries ==
    {Obj(Empty, Empty), Summary(IntScalar("0")), Summary(IntScalar("1")),
     Summary(IntScalar("2")), NonObject}

SeqsUpTo(S, n) == UNION {[1..m -> S] : m \in 0..n}

ListBody(t, items) == [t |-> t, items |-> items]

ListBodies ==
    {ListBody("dict", <<>>)}
    \cup {ListBody("list", items) : items \in SeqsUpTo(Summaries, MaxChars)}

ListOutcomes ==
    {NoListResponse, Response(500, FALSE, NoList),
     Response(200, FALSE, NoList)}
    \cup {Response(200, TRUE, b) : b \in ListBodies}

\* mutant: the shape check accepts anything
IsListAlways(v) == TRUE

\* isinstance(characters, list)
IsList(v) == v.t = "list"

\* mutant: the empty list is not recognised
IsEmptyListNever(v) == FALSE

\* not characters
IsEmptyList(v) == Len(v.items) = 0

\* the for statement over a list: its body runs once per element, if any
LoopEntry(v) == IF Len(v.items) = 0 THEN "write" ELSE "details"

\* lines 62-84
FetchList ==
    /\ pc = "fetch_list"
    /\ \E r \in ListOutcomes :
        LET started == Append(log, LogEntry("info", "Fetching character IDs..."))
        IN  /\ requests' = Append(requests,
                    Request("GET", <<config["characters_url"], config["project_id"]>>,
                            headers, session))
            /\ response' = r
            /\ CASE r.status = 0 ->
                    /\ Escapes("ConnectionError")
                    /\ log' = started
                    /\ UNCHANGED characters
                 [] r.status # 0 /\ RaisesForStatus(r.status) ->
                    /\ Returns("return_73")
                    /\ log' = started \o <<LogEntry("error", "Failed to fetch character IDs"),
                                           LogEntry("error", "Response content")>>
                    /\ UNCHANGED characters
                 [] r.status # 0 /\ ~RaisesForStatus(r.status) /\ ~r.parses ->
                    \* response.json() at line 75 is outside any try
                    /\ Escapes("JSONDecodeError")
                    /\ log' = started
                    /\ UNCHANGED characters
                 [] r.status # 0 /\ ~RaisesForStatus(r.status) /\ r.parses
                        /\ ~IsList(r.body) ->
                    /\ Returns("return_78")
                    /\ characters' = r.body
                    /\ log' = Append(started,
                            LogEntry("error", "Unexpected data format received for characters"))
                 [] r.status # 0 /\ ~RaisesForStatus(r.status) /\ r.parses
                        /\ IsList(r.body) /\ IsEmptyList(r.body) ->
                    /\ Returns("return_82")
                    /\ characters' = r.body
                    /\ log' = Append(started, LogEntry("info", "No characters found"))
                 [] OTHER ->
                    /\ pc' = LoopEntry(r.body)
                    /\ characters' = r.body
                    /\ log' = started
                    /\ UNCHANGED <<session, raised>>
    /\ all_character_data' =
            IF pc' \in {"details", "write"} THEN <<>> ELSE all_character_data
    /\ UNCHANGED <<config_file, config, acquired, token, headers, idx,
                   auth_response, item_results, exporter_calls, file>>

\* ------------------------------------------------------------ detail loop
\* the two records of the specification's example, and a body that is no object
RecordA ==
    Obj([key \in {"id", "name"} |->
            IF key = "id" THEN IntScalar("1") ELSE StrScalar("A")], Empty)
RecordB ==
    Obj([key \in {"id"} |-> IntScalar("2")],
        [key \in {"stats"} |-> Obj([kk \in {"hp"} |-> IntScalar("10")], Empty)])

DetailBodies == {RecordA, RecordB, NonObject}

DetailOutcomes ==
    {NoResponse, ErrorResponse, Response(200, FALSE, NonObject)}
    \cup {Response(200, TRUE, b) : b \in DetailBodies}

ItemResult(no_id, r) == [no_id |-> no_id, not_dict |-> FALSE, response |-> r]

\* the iteration of an element that is no dict: character.get raised
NotDictResult == [no_id |-> FALSE, not_dict |-> TRUE, response |-> NoResponse]

\* mutant: the same element is taken again
NextIndexRetry(i) == i

\* the for statement takes the next element
NextIndex(i) == i + 1

\* after the body of the loop: next element, or the code after the loop
Advance ==
    /\ idx' = NextIndex(idx)
    /\ pc' = IF NextIndex(idx) > Len(characters.items) THEN "write" ELSE "details"
    /\ UNCHANGED <<session, raised>>

\* lines 87-110, one iteration
DetailStep ==
    /\ pc = "details"
    /\ idx \in 1..Len(characters.items)
    /\ LET character == characters.items[idx]
           character_id == Get(character, "characterId")
           started == Append(log, LogEntry("info", "Fetching details for character ID"))
       IN  IF ~IsDict(character)
           THEN \* character.get at line 88 raises AttributeError, outside any try
                /\ Escapes("AttributeError")
                /\ item_results' = Append(item_results, NotDictResult)
                /\ UNCHANGED <<idx, log, requests, all_character_data>>
           ELSE IF ~Truthy(character_id)
           THEN /\ log' = Append(log, LogEntry("warning", "Character ID not found"))
                /\ item_results' = Append(item_results, ItemResult(TRUE, NoResponse))
                /\ Advance
                /\ UNCHANGED <<requests, all_character_data>>
           ELSE \E r \in DetailOutcomes :
                /\ requests' = Append(requests,
                        Request("GET",
                                <<config["character_details_url"], config["project_id"],
                                  character_id.text>>,
                                headers, session))
                /\ item_results' = Append(item_results, ItemResult(FALSE, r))
                /\ CASE r = NoResponse ->
                        /\ Escapes("ConnectionError")
                        /\ log' = started
                        /\ UNCHANGED <<idx, all_character_data>>
                     [] r # NoResponse /\ RaisesForStatus(r.status) ->
                        /\ Advance
                        /\ log' = started \o <<LogEntry("error", "Failed to fetch details"),
                                               LogEntry("error", "Response content")>>
                        /\ UNCHANGED all_character_data
                     [] r # NoResponse /\ ~RaisesForStatus(r.status) /\ ~r.parses ->
                        /\ Advance
                        /\ log' = Append(started, LogEntry("error", "Failed to decode JSON"))
                        /\ UNCHANGED all_character_data
                     [] OTHER ->
                        /\ Advance
                        /\ log' = started
                        /\ all_character_data' = Append(all_character_data, r.body)
    /\ UNCHANGED <<config_file, config, acquired, token, headers, characters,
                   auth_response, response, exporter_calls, file>>

\* ---------------------------------------------------------------- exporter
\* how the two pandas calls of lines 128-129 can end: both complete; one
\* raises before output_file is created (json_normalize rejects the data,
\* the path cannot be opened); to_csv raises after creating the file
ExportOutcomes == {"written", "failed", "failed_partial"}

\* lines 127-132: the file left at output_file and the record logged.  Every
\* exception of the two calls is caught at line 131.
WriteToCsvWithPandas(data, old_file, outcome) ==
    CASE outcome = "written" ->
            [file |-> [exists |-> TRUE, complete |-> TRUE],
             logged |-> LogEntry("info", "Data successfully written")]
      [] outcome = "failed_partial" ->
            [file |-> [exists |-> TRUE, complete |-> FALSE],
             logged |-> LogEntry("error", "Failed to write data to CSV")]
      [] OTHER ->
            [file |-> old_file,
             logged |-> LogEntry("error", "Failed to write data to CSV")]

\* one call of write_to_csv_with_pandas: its data and how the calls ended
ExporterCall(data, outcome) == [data |-> data, outcome |-> outcome]

\* mutant: the exporter is called whatever was collected
HasDataAlways(data) == TRUE

\* if all_character_data
HasData(data) == Len(data) > 0

\* lines 112-116
Finish ==
    /\ pc = "write"
    /\ IF HasData(all_character_data)
       THEN \E outcome \in ExportOutcomes :
            \* the root logger is at INFO here (basicConfig at line 16)
            LET out == WriteToCsvWithPandas(all_character_data, file, outcome)
            IN  /\ exporter_calls' = Append(exporter_calls,
                        ExporterCall(all_character_data, outcome))
                /\ file' = out.file
                /\ log' = Append(log, out.logged)
       ELSE /\ log' = Append(log, LogEntry("info", "No character data available to write"))
            /\ UNCHANGED <<exporter_calls, file>>
    /\ Returns("return_end")
    /\ UNCHANGED <<config_file, config, acquired, token, headers, characters, idx,
                   all_character_data, requests, auth_response, response, item_results>>

Next == LoadConfig \/ ReadConfig \/ Authenticate \/ FetchList \/ DetailStep \/ Finish

Spec == Init /\ [][Next]_vars

\* ================================================================= claims
Terminal ==
    pc \in {"return_25", "return_47", "return_54", "return_58", "return_73",
            "return_78", "return_82", "return_end", "raised"}

HasLog(level, msg) == \E i \in 1..Len(log) : log[i] = LogEntry(level, msg)

ErrorLogged == \E i \in 1..Len(log) : log[i].level = "error"

Non2xx(status) == status < 200 \/ status > 299

AuthIssued == Len(requests) >= 1
ListIssued == Len(requests) >= 2

\* an element's iteration succeeded: it had an identifier, the request was
\* answered 2xx and the body was JSON
Succeeded(res) ==
    /\ ~res.no_id
    /\ ~res.not_dict
    /\ res.response # NoResponse
    /\ ~Non2xx(res.response.status)
    /\ res.response.parses

RECURSIVE SuccessfulRecords(_)
SuccessfulRecords(results) ==
    IF results = <<>> THEN <<>>
    ELSE IF Succeeded(Head(results))
         THEN <<Head(results).response.body>> \o SuccessfulRecords(Tail(results))
         ELSE SuccessfulRecords(Tail(results))

Handed == IF exporter_calls = <<>> THEN <<>> ELSE exporter_calls[1].data

\* C1: once a non-empty character list was fetched, whatever the outcome of
\* each element (no identifier, failed request, body not JSON, success), the
\* run ends with every element processed and with exactly the detail records
\* of the successful elements, in list order, handed to the exporter.
C1_ItemFailureNeverAbortsLoop ==
    (Terminal /\ IsList(characters) /\ ~IsEmptyList(characters))
        => /\ Len(item_results) = Len(characters.items)
           /\ Handed = SuccessfulRecords(item_results)

\* C2: fetch_character_data always returns normally: no run ends with an
\* exception leaving the function.
C2_AlwaysReturnsNormally == pc # "raised" /\ raised = "none"

ConfigMissing == ~config_file.exists /\ pc # "load_config"

AuthFailed ==
    /\ AuthIssued
    /\ \/ auth_response = NoResponse
       \/ Non2xx(auth_response.status)
       \/ ~auth_response.parses
       \/ IsDict(auth_response.body) /\ ~Truthy(Get(auth_response.body, "access_token"))

ListFailed == ListIssued /\ response # NoListResponse /\ Non2xx(response.status)

\* C3: after a run-level failure (configuration file missing, authentication
\* failed at transport level, by status, by a body that is not JSON or by an
\* absent or empty token, list fetch answered non-2xx) an error is logged, no
\* request of a later stage is issued, the exporter is never invoked and no
\* output file is written.
C3_RunLevelFailureAborts ==
    /\ ConfigMissing
        => ErrorLogged /\ requests = <<>> /\ exporter_calls = <<>> /\ ~file.exists
    /\ AuthFailed
        => ErrorLogged /\ Len(requests) = 1 /\ exporter_calls = <<>> /\ ~file.exists
    /\ ListFailed
        => ErrorLogged /\ Len(requests) = 2 /\ exporter_calls = <<>> /\ ~file.exists

\* the token the authentication endpoint returned, "" when it returned none
ReturnedToken ==
    IF AuthIssued /\ auth_response # NoResponse /\ auth_response.parses
       /\ IsDict(auth_response.body) /\ "access_token" \in DOMAIN auth_response.body.s
       /\ auth_response.body.s["access_token"].k = "str"
    THEN auth_response.body.s["access_token"].text
    ELSE ""

\* C4: every GET (the list request and every detail request) is issued after
\* the authentication POST returned a non-empty token T, and carries the
\* header Authorization: Bearer T with that T.
C4_BearerTokenOnEveryRequest ==
    \A i \in 1..Len(requests) :
        requests[i].method = "GET"
            => /\ i > 1
               /\ requests[1].method = "POST"
               /\ ReturnedToken # ""
               /\ requests[i].headers = <<"Authorization", "Bearer " \o ReturnedToken>>

C4_Witness ==
    /\ Len(requests) >= 4
    /\ ReturnedToken = "T2"
    /\ requests[4].headers = <<"Authorization", "Bearer T2">>

ListReturned(body) ==
    ListIssued /\ response.status = 200 /\ response.parses /\ response.body = body

\* C5: an empty array from the list fetch ends the run at once with an
\* informational record and no error record, no detail request, no exporter
\* call and no output file; the exporter is only ever called with a non-empty
\* sequence, and a run that collected nothing logs that there is nothing to
\* write and does not call it.
C5_NothingToExport ==
    /\ ListReturned(ListBody("list", <<>>))
        => /\ pc = "return_82"
           /\ HasLog("info", "No characters found")
           /\ ~ErrorLogged
           /\ Len(requests) = 2
           /\ exporter_calls = <<>>
           /\ ~file.exists
    /\ \A i \in 1..Len(exporter_calls) : Len(exporter_calls[i].data) > 0
    /\ (pc = "return_end" /\ all_character_data = <<>>)
        => /\ exporter_calls = <<>>
           /\ ~file.exists
           /\ log[Len(log)] = LogEntry("info", "No character data available to write")

C5_Witness ==
    /\ ListReturned(ListBody("list", <<>>))
    /\ Terminal
    /\ session = "closed"

\* C6: a list body that is JSON but no array ends the run with the
\* unexpected-format error logged, no detail request, no exporter call and no
\* output file.
C6_NonArrayListAborts ==
    (ListIssued /\ response.status = 200 /\ response.parses /\ response.body.t # "list")
        => /\ pc = "return_78"
           /\ log[Len(log)] =
                LogEntry("error", "Unexpected data format received for characters")
           /\ Len(requests) = 2
           /\ exporter_calls = <<>>
           /\ ~file.exists

C6_Witness == ListReturned(ListBody("dict", <<>>)) /\ Terminal

\* C7: at most one session is acquired per run, every request is issued on
\* it while it is open, and every terminal state reached after acquiring it,
\* by return or by an escaping exception, has it closed.
C7_SessionAlwaysReleased ==
    /\ acquired <= 1
    /\ (acquired = 0) = (session = "none")
    /\ \A i \in 1..Len(requests) : requests[i].session = "open"
    /\ Terminal => session # "open"
    /\ (~Terminal /\ acquired = 1) => session = "open"

C7_Witness == pc = "raised" /\ acquired = 1 /\ session = "closed" /\ Len(requests) >= 3

\* the stage of the run's state machine the program is in.  Exported is the
\* state after the exporter has run: a failure inside it is caught and logged
\* there (lines 131-132) and the run still ends by falling off the end.
Stage ==
    CASE pc = "load_config" -> "Init"
      [] pc \in {"read_config", "authenticate"} -> "ConfigLoaded"
      [] pc = "fetch_list" -> "Authenticated"
      [] pc = "details" -> "ListFetched"
      [] pc = "write" -> "DetailsCollected"
      [] pc = "return_82" -> "NoOp"
      [] pc = "return_end" /\ exporter_calls = <<>> -> "NoOp"
      [] pc = "return_end" /\ exporter_calls # <<>> -> "Exported"
      [] OTHER -> "Aborted"

StageOrder ==
    {<<"Init", "ConfigLoaded">>, <<"ConfigLoaded", "Authenticated">>,
     <<"Authenticated", "ListFetched">>, <<"ListFetched", "DetailsCollected">>,
     <<"DetailsCollected", "Exported">>, <<"DetailsCollected", "NoOp">>,
     <<"Authenticated", "NoOp">>}
    \cup {<<st, "Aborted">> : st \in {"Init", "ConfigLoaded", "Authenticated", "ListFetched"}}

\* C9: every step that changes the stage follows the order Init,
\* ConfigLoaded, Authenticated, ListFetched, DetailsCollected, Exported, or
\* goes from a stage before DetailsCollected to Aborted, or ends the run in
\* the no-op state (from Authenticated on an empty list, from
\* DetailsCollected on an empty collected set); no stage is entered twice and
\* from DetailsCollected the run ends in Exported exactly when the collected
\* set is non-empty, never in Aborted and never by an exception.
C9_StageOrder ==
    [][Stage' # Stage
        => /\ <<Stage, Stage'>> \in StageOrder
           /\ Stage' = "Exported" => all_character_data # <<>>
           /\ Stage' = "NoOp" =>
                IF Stage = "DetailsCollected" THEN all_character_data = <<>>
                ELSE ListReturned(ListBody("list", <<>>))'
           /\ Stage = "DetailsCollected" => raised' = "none" /\ pc' = "return_end"]_vars

C9_Witness ==
    /\ Stage = "Exported"
    /\ Len(all_character_data) = 1
    /\ Len(characters.items) = 3
    /\ ErrorLogged

\* the identifiers of the elements that have one, in list order
RECURSIVE Identifiers(_)
Identifiers(items) ==
    IF items = <<>> THEN <<>>
    ELSE LET id == Get(Head(items), "characterId")
         IN  IF Truthy(id) THEN <<id.text>> \o Identifiers(Tail(items))
             ELSE Identifiers(Tail(items))

\* C10: exactly the first request is the authentication POST and exactly the
\* second is the list GET; the detail GETs are, in list order, one for each
\* processed element that has an identifier and none for the others, so no
\* element is requested twice and a failed request is followed only by
\* requests for later elements.
C10_NoRetry ==
    LET processed == SubSeq(characters.items, 1, Len(item_results))
        details == SubSeq(requests, 3, Len(requests))
    IN  /\ Len(item_results) <= Len(characters.items)
        /\ pc = "details" => idx = Len(item_results) + 1
        /\ \A i \in 1..Len(requests) :
            /\ (requests[i].method = "POST") = (i = 1)
            /\ (requests[i].url[1] = "characters_url") = (i = 2)
        /\ \A i \in 1..Len(item_results) :
            item_results[i].no_id =
                (IsDict(characters.items[i])
                    /\ ~Truthy(Get(characters.items[i], "characterId")))
        /\ Len(details) = Len(Identifiers(processed))
        /\ \A j \in 1..Len(details) :
            details[j].url =
                <<"character_details_url", "project_id", Identifiers(processed)[j]>>

C10_Witness ==
    /\ pc = "return_end"
    /\ Len(item_results) = 3
    /\ item_results[2].response = ErrorResponse
    /\ ~item_results[2].no_id
    /\ ~item_results[3].no_id
    /\ Len(requests) = 5
====
